---- MODULE Spec2Model ----
(***************************************************************************)
(* Face-recognition web service (web_server_flask/app.py, logic.py).       *)
(*                                                                         *)
(* Distances are in units of 0.1, so the threshold 0.4 is 4.  Embeddings   *)
(* are points on a line and face_distance is the Euclidean distance of two *)
(* such points.  Time is in hours, so timedelta(hours=1) is 1.             *)
(* A known-encoding store is a Python dict: a sequence of entries with     *)
(* distinct names, in insertion order.  The filename of an encoding is     *)
(* never read by the matchers and is left out.                             *)
(***************************************************************************)
EXTENDS Integers, Sequences, FiniteSets, TLC

\* ------------------------------------------------------------------ bounds
MaxEnc == 2
MaxFaces == 2
MaxTime == 2
MaxFrames == 1
MaxStreams == 1
MaxFeeds == 2

\* --------------------------------------------------------- program constants
FACE_MATCH_THRESHOLD == 4
RETENTION == 1

Unknown == "Unknown"
Names == {"A", "B"}
Encodings == {2, 4, 5}
FaceEncodings == {0, 3}
Videos == {"a.mp4", "b.mp4"}
NoVideo == "-"
None == 0
Unopenable == 0 - 1

\* ------------------------------------------------------------------ helpers
SeqsUpTo(S, n) == UNION {[1..k -> S] : k \in 0..n}

\* dict.update(other): existing keys keep their position and take the new
\* value, new keys are appended in other's order.
RECURSIVE DictUpdate(_, _)
DictUpdate(d, other) ==
    IF other = <<>> THEN d
    ELSE LET e == Head(other)
             hit == {i \in 1..Len(d) : d[i].name = e.name}
             d2 == IF hit = {} THEN Append(d, e)
                   ELSE [i \in 1..Len(d) |-> IF i \in hit THEN e ELSE d[i]]
         IN DictUpdate(d2, Tail(other))

\* Every store the remote storage can hold within the bounds: each person
\* once, each with up to MaxEnc encodings.
Stores ==
    {s \in SeqsUpTo([name : Names, encodings : SeqsUpTo(Encodings, MaxEnc)],
                    Cardinality(Names)) :
        \A i, j \in 1..Len(s) : i # j => s[i].name # s[j].name}

\* What the startup fetch can return.
Galleries ==
    { << [name |-> "A", encodings |-> <<4>>],
         [name |-> "B", encodings |-> <<2>>] >> }

\* The faces detected in a decoded picture: face i at location i.
Pictures ==
    {[i \in 1..Len(f) |-> [loc |-> i, enc |-> f[i]]] :
        f \in SeqsUpTo(FaceEncodings, MaxFaces)}

\* An image or a frame: decodable with its faces, or one the codec rejects.
BadFrame == [ok |-> FALSE, faces |-> <<>>]
Frames == {[ok |-> TRUE, faces |-> p] : p \in Pictures} \cup {BadFrame}

\* face_recognition.face_distance([known_encoding], face_encoding)
face_distance(known_encoding, face_encoding) ==
    IF known_encoding >= face_encoding
    THEN known_encoding - face_encoding
    ELSE face_encoding - known_encoding

\* ---------------------------------------------------------------- matching
\* logic.py:82, the test that replaces the best match (recognize_faces_in_image)
RecognizeCloserLe(distance, best_match_distance) ==
    distance <= best_match_distance

RecognizeCloser(distance, best_match_distance) ==
    distance < best_match_distance

\* logic.py:80-84, the loop over one person's encodings
RECURSIVE RecognizeEncodings(_, _, _, _)
RecognizeEncodings(encodings, person_name, face_encoding, best) ==
    IF encodings = <<>> THEN best
    ELSE LET distance == face_distance(Head(encodings), face_encoding)
             next == IF RecognizeCloser(distance, best.distance)
                     THEN [name |-> person_name, distance |-> distance]
                     ELSE best
         IN RecognizeEncodings(Tail(encodings), person_name, face_encoding, next)

\* logic.py:79, the loop over known_encodings.items()
RECURSIVE RecognizePeople(_, _, _)
RecognizePeople(store, face_encoding, best) ==
    IF store = <<>> THEN best
    ELSE RecognizePeople(Tail(store), face_encoding,
             RecognizeEncodings(Head(store).encodings, Head(store).name,
                                face_encoding, best))

\* logic.py:87, recognized_faces.append: the results are in the faces' order
RecognizeFacesReversed(faces, store) ==
    [i \in 1..Len(faces) |->
        [loc |-> faces[Len(faces) + 1 - i].loc,
         name |-> RecognizePeople(store, faces[Len(faces) + 1 - i].enc,
                      [name |-> Unknown, distance |-> FACE_MATCH_THRESHOLD]).name]]

\* logic.py:73-89, one (top, right, bottom, left, name) per detected face
recognize_faces_in_image(faces, store) ==
    [i \in 1..Len(faces) |->
        [loc |-> faces[i].loc,
         name |-> RecognizePeople(store, faces[i].enc,
                      [name |-> Unknown, distance |-> FACE_MATCH_THRESHOLD]).name]]

\* logic.py:123, the test that replaces the best match (process_frame)
ProcessCloserLe(distance, best_match_distance) ==
    distance <= best_match_distance

ProcessCloser(distance, best_match_distance) ==
    distance < best_match_distance

\* logic.py:121-125
RECURSIVE ProcessEncodings(_, _, _, _)
ProcessEncodings(encodings, person_name, face_encoding, best) ==
    IF encodings = <<>> THEN best
    ELSE LET distance == face_distance(Head(encodings), face_encoding)
             next == IF ProcessCloser(distance, best.distance)
                     THEN [name |-> person_name, distance |-> distance]
                     ELSE best
         IN ProcessEncodings(Tail(encodings), person_name, face_encoding, next)

\* logic.py:120
RECURSIVE ProcessPeople(_, _, _)
ProcessPeople(store, face_encoding, best) ==
    IF store = <<>> THEN best
    ELSE ProcessPeople(Tail(store), face_encoding,
             ProcessEncodings(Head(store).encodings, Head(store).name,
                              face_encoding, best))

\* logic.py:108-133; a frame the colour conversion rejects raises inside the
\* try and the except returns [].
process_frame(frame, store) ==
    IF ~frame.ok THEN <<>>
    ELSE [i \in 1..Len(frame.faces) |->
            [loc |-> frame.faces[i].loc,
             name |-> ProcessPeople(store, frame.faces[i].enc,
                          [name |-> Unknown, distance |-> FACE_MATCH_THRESHOLD]).name]]

\* ------------------------------------------------------------------- state
VARIABLES
    pc,               \* where module start-up is: import, load, locked, serving, crashed
    known_encodings,  \* app.py:54
    loaded_images,    \* app.py:55
    lock,             \* app.py:60, TRUE while the semaphore is held
    fetches,          \* calls of load_known_people_images_from_firebase so far
    streaming,        \* app.py:56
    video_capture,    \* app.py:57, the global camera handle (None or a handle id)
    opened,           \* camera handles that are open (created and not released)
    previous_names,   \* app.py:232, a global of process_video
    feeds,            \* the process_video generators, by id
    readFailed,       \* a camera read failed since the last start_video_feed
    lastFrame,        \* what the latest live-feed step read, emitted and yielded
    uploaded_videos,  \* app.py:59, path -> upload time
    disk,             \* the files of UPLOAD_FOLDER, path -> content
    now,              \* datetime.now()
    streams,          \* the stream_annotated_video generators, by id
    lastUpload,       \* path -> time of its latest successful upload, for the
                      \* paths not deleted since
    history,          \* path -> "purged" (deleted on expiry, no upload since),
                      \* "renewed" (its latest upload replaced a session whose
                      \* hour had passed) or "-"
    resp,             \* the response of the request handled by the latest step
    lastMatch         \* the latest matcher call: function, faces, result

startupVars == <<pc, known_encodings, loaded_images, lock, fetches>>
liveVars == <<streaming, video_capture, opened, previous_names, feeds, readFailed,
              lastFrame>>
videoVars == <<uploaded_videos, disk, now, streams, lastUpload, history>>
vars == <<pc, known_encodings, loaded_images, lock, fetches, streaming,
          video_capture, opened, previous_names, feeds, readFailed, lastFrame,
          uploaded_videos, disk, now, streams, lastUpload, history, resp,
          lastMatch>>

FeedIds == 1..MaxFeeds
StreamIds == 1..MaxStreams
\* What a file holds: its number of readable frames, or nothing cv2 can open.
Contents == {Unopenable} \cup 1..MaxFrames

NoResp == [op |-> "none", video |-> NoVideo, status |-> 0]
Response(op, video, status) == [op |-> op, video |-> video, status |-> status]
NoMatch == [fn |-> "none", faces |-> <<>>, out |-> <<>>]
\* A process_video generator: where it is ("created", "sleeping", "yielded", or
\* "done" once it has ended, whichever way) and the names of its latest frame.
NoFeed == [pc |-> "none", own |-> {}]
\* What the latest live-feed step did: whether it read and matched a frame,
\* whether it yielded a part, whether the names of the frame it read differ
\* from those of the frame before it in its own stream (the empty set before
\* the first), and whether it emitted persons_recognized.
NoFrame == [read |-> FALSE, yielded |-> FALSE, changed |-> FALSE, emitted |-> FALSE]
\* A stream_annotated_video generator: where it is, its file, the readable
\* frames of the file, the parts yielded so far, whether it holds an open
\* capture handle, and the match result its latest part was drawn from.
NoStream == [pc |-> "none", video |-> NoVideo, frames |-> 0, parts |-> 0,
             capture |-> FALSE, part |-> <<>>]
Empty == [v \in {} |-> 0]

\* d[k] = x and del d[k] on a dict
DictSet(d, k, x) == [j \in DOMAIN d \cup {k} |-> IF j = k THEN x ELSE d[j]]
DictDel(d, k) == [j \in DOMAIN d \ {k} |-> d[j]]

\* Files a previous run of the service left in UPLOAD_FOLDER (app.py:63 keeps
\* an existing folder).
LeftoverDisks == {Empty, DictSet(Empty, "a.mp4", 1)}

\* app.py:54-60, before "from logic import ..." runs logic.py
Init ==
    /\ pc = "import"
    /\ known_encodings = <<>>
    /\ loaded_images = FALSE
    /\ lock = FALSE
    /\ fetches = 0
    /\ streaming = FALSE
    /\ video_capture = None
    /\ opened = {}
    /\ previous_names = {}
    /\ feeds = [g \in FeedIds |-> NoFeed]
    /\ readFailed = FALSE
    /\ lastFrame = NoFrame
    /\ uploaded_videos = Empty
    /\ disk \in LeftoverDisks
    /\ now = 0
    /\ streams = [g \in StreamIds |-> NoStream]
    /\ lastUpload = Empty
    /\ history = [v \in Videos |-> "-"]
    /\ resp = NoResp
    /\ lastMatch = NoMatch

\* ---------------------------------------------------------------- start-up
\* logic.py:136, run by app.py:15.  An exception here ends the process.
ImportLogic ==
    /\ pc = "import"
    /\ fetches' = fetches + 1
    /\ \/ pc' = "load"
       \/ pc' = "crashed"
    /\ UNCHANGED <<known_encodings, loaded_images, lock>>
    /\ UNCHANGED <<liveVars, videoVars, resp, lastMatch>>

\* app.py:71-73: return when loaded, else take the lock
LoadEnter ==
    /\ pc = "load"
    /\ IF loaded_images
       THEN pc' = "serving" /\ lock' = lock
       ELSE ~lock /\ lock' = TRUE /\ pc' = "locked"
    /\ UNCHANGED <<known_encodings, loaded_images, fetches>>
    /\ UNCHANGED <<liveVars, videoVars, resp, lastMatch>>

\* app.py:76-77, the fetch returned
FetchLoaded(store, fetched) == DictUpdate(store, fetched)

\* app.py:74-80 and the release of the lock
LoadFetch ==
    /\ pc = "locked"
    /\ IF loaded_images
       THEN UNCHANGED <<known_encodings, loaded_images, fetches>>
       ELSE /\ fetches' = fetches + 1
            /\ \/ \E fetched \in Galleries :
                    /\ known_encodings' = FetchLoaded(known_encodings, fetched)
                    /\ loaded_images' = TRUE
               \/ UNCHANGED <<known_encodings, loaded_images>>
    /\ lock' = FALSE
    /\ pc' = "serving"
    /\ UNCHANGED <<liveVars, videoVars, resp, lastMatch>>

NextStartup == ImportLogic \/ LoadEnter \/ LoadFetch

\* ----------------------------------------------------------------- matching
\* logic.py:79 and 120: the matchers iterate known_encodings.items() and
\* write nothing to the dict they are handed, which is the caller's.
StoreEvicted(store) == IF store = <<>> THEN store ELSE Tail(store)

StoreAfterMatch(store) == store

\* app.py:108-127.  part is "none" (no imageFile part), "empty" (empty
\* filename) or "file".
UploadImage(part, image) ==
    /\ pc = "serving"
    /\ IF part = "none" \/ part = "empty"
       THEN /\ resp' = Response("upload_image", NoVideo, 400)
            /\ UNCHANGED lastMatch
       ELSE IF ~image.ok
       THEN /\ resp' = Response("upload_image", NoVideo, 500)
            /\ UNCHANGED lastMatch
       ELSE /\ resp' = Response("upload_image", NoVideo, 200)
            /\ lastMatch' = [fn |-> "recognize_faces_in_image",
                            faces |-> image.faces,
                            out |-> recognize_faces_in_image(image.faces, known_encodings)]
    /\ known_encodings' = StoreAfterMatch(known_encodings)
    /\ UNCHANGED <<pc, loaded_images, lock, fetches>>
    /\ UNCHANGED <<liveVars, videoVars>>

\* app.py:188 and app.py:247: a generator's call of process_frame on one frame
MatchFrame(frame) ==
    /\ pc = "serving"
    /\ lastMatch' = [fn |-> "process_frame", faces |-> frame.faces,
                    out |-> process_frame(frame, known_encodings)]
    /\ resp' = NoResp
    /\ known_encodings' = StoreAfterMatch(known_encodings)
    /\ UNCHANGED <<pc, loaded_images, lock, fetches>>
    /\ UNCHANGED <<liveVars, videoVars>>

\* The service after start-up, with any store the remote storage can hold.
InitMatch ==
    /\ pc = "serving"
    /\ known_encodings \in Stores
    /\ loaded_images = TRUE
    /\ lock = FALSE
    /\ fetches = 2
    /\ streaming = FALSE
    /\ video_capture = None
    /\ opened = {}
    /\ previous_names = {}
    /\ feeds = [g \in FeedIds |-> NoFeed]
    /\ readFailed = FALSE
    /\ lastFrame = NoFrame
    /\ uploaded_videos = Empty
    /\ disk = Empty
    /\ now = 0
    /\ streams = [g \in StreamIds |-> NoStream]
    /\ lastUpload = Empty
    /\ history = [v \in Videos |-> "-"]
    /\ resp = NoResp
    /\ lastMatch = NoMatch

\* One request or one frame per behaviour: the matchers keep no state, so a
\* call's result does not depend on the calls before it.
NoCallYet == resp = NoResp /\ lastMatch = NoMatch

NextMatch ==
    \/ \E part \in {"none", "empty"} : NoCallYet /\ UploadImage(part, BadFrame)
    \/ \E image \in Frames : NoCallYet /\ UploadImage("file", image)
    \/ \E frame \in Frames : NoCallYet /\ MatchFrame(frame)

SpecMatch == InitMatch /\ [][NextMatch]_vars

\* ------------------------------------------------------ upload and stream
\* The clock moves on while the service runs.
Tick ==
    /\ pc = "serving"
    /\ now < MaxTime
    /\ now' = now + 1
    /\ resp' = NoResp
    /\ UNCHANGED <<uploaded_videos, disk, streams, lastUpload, history>>
    /\ UNCHANGED <<startupVars, liveVars, lastMatch>>

\* app.py:148, uploaded_videos[video_path] = datetime.now()
RecordUploadKeep(sessions, video, t) ==
    IF video \in DOMAIN sessions THEN sessions ELSE DictSet(sessions, video, t)

RecordUpload(sessions, video, t) == DictSet(sessions, video, t)

\* app.py:146-148: the session is written after file.save in the same try, so
\* a save that raises skips it
SessionsRecordedFirst(sessions, video, t, saved) == RecordUpload(sessions, video, t)

SessionsAfterSave(sessions, video, t, saved) ==
    IF saved = "ok" THEN RecordUpload(sessions, video, t) ELSE sessions

\* app.py:129-153.  part is "none", "empty" or "file"; saved is "ok", "fail"
\* (file.save raised and wrote nothing) or "partial" (it raised after it had
\* created the file).
UploadVideo(part, video, content, saved) ==
    /\ pc = "serving"
    /\ IF part = "none" \/ part = "empty"
       THEN /\ resp' = Response("upload_video", NoVideo, 400)
            /\ UNCHANGED <<uploaded_videos, disk, lastUpload, history>>
       ELSE IF saved = "ok"
       THEN /\ disk' = DictSet(disk, video, content)
            /\ uploaded_videos' = SessionsAfterSave(uploaded_videos, video, now, saved)
            /\ lastUpload' = DictSet(lastUpload, video, now)
            /\ history' = [history EXCEPT ![video] =
                   IF video \in DOMAIN uploaded_videos
                      /\ now - uploaded_videos[video] > RETENTION
                   THEN "renewed" ELSE "-"]
            /\ resp' = Response("upload_video", NoVideo, 200)
       ELSE /\ disk' = IF saved = "partial" THEN DictSet(disk, video, Unopenable)
                       ELSE disk
            /\ history' = [history EXCEPT ![video] =
                   IF @ = "purged" THEN "-" ELSE @]
            /\ resp' = Response("upload_video", NoVideo, 500)
            /\ uploaded_videos' = SessionsAfterSave(uploaded_videos, video, now, saved)
            /\ UNCHANGED lastUpload
    /\ UNCHANGED <<now, streams>>
    /\ UNCHANGED <<startupVars, liveVars, lastMatch>>

\* A generator that has ended, how it ended and the parts it had yielded.
Ended(how, parts) ==
    [pc |-> how, video |-> NoVideo, frames |-> 0, parts |-> parts,
     capture |-> FALSE, part |-> <<>>]

\* A generator slot that holds no live generator.
FreeStream(g) ==
    /\ streams[g].pc \in {"none", "done", "raised", "closed"}
    /\ \A h \in StreamIds :
          h < g => streams[h].pc \notin {"none", "done", "raised", "closed"}

\* app.py:161, os.path.exists(video_path)
VideoKnown(video) == video \in DOMAIN disk

\* app.py:155-163
StreamVideo(video) ==
    /\ pc = "serving"
    /\ IF ~VideoKnown(video)
       THEN /\ resp' = Response("stream_video", video, 404)
            /\ UNCHANGED streams
       ELSE \E g \in StreamIds :
            /\ FreeStream(g)
            /\ streams' = [streams EXCEPT ![g] =
                   [NoStream EXCEPT !.pc = "created", !.video = video]]
            /\ resp' = Response("stream_video", video, 200)
    /\ UNCHANGED <<uploaded_videos, disk, now, lastUpload, history>>
    /\ UNCHANGED <<startupVars, liveVars, lastMatch>>

\* app.py:173, datetime.now() - uploaded_videos[video_path] > timedelta(hours=1)
ExpiredGe(uploaded, t) == t - uploaded >= RETENTION

Expired(uploaded, t) == t - uploaded > RETENTION

\* app.py:174-175; os.remove raises for a missing file and the del is skipped
RemoveKeepSession(sessions, video) == sessions

RemoveSession(sessions, video) ==
    IF video \in DOMAIN disk THEN DictDel(sessions, video) ELSE sessions

\* app.py:184, the k-th frame a stored file gives: one face, not the same in
\* two frames that follow each other
FileFrame(k) ==
    [ok |-> TRUE, faces |-> <<[loc |-> 1, enc |-> IF k % 2 = 1 THEN 3 ELSE 0]>>]

\* app.py:184-186, ret after parts frames were read of a file that has frames
MoreFramesLe(parts, frames) == parts <= frames

MoreFrames(parts, frames) == parts < frames

\* app.py:169-190 up to the first yield, and what the except and finally
\* clauses do on each way out.  video_capture is a local of this function,
\* bound at line 179 only: on a way out before it the finally clause reads an
\* unbound local and the generator ends with UnboundLocalError ("raised").
\* process_frame catches whatever a frame makes it raise (logic.py:131), so
\* what a frame shows changes the bytes of its part and nothing else; the bytes
\* are not kept in the state.  A capture handle that did not open is released
\* by the finally clause like one that did.
StreamStart(g) ==
    /\ pc = "serving"
    /\ streams[g].pc = "created"
    /\ LET video == streams[g].video
           end(how) == [streams EXCEPT ![g] = Ended(how, 0)]
       IN IF video \notin DOMAIN uploaded_videos
          THEN /\ streams' = end("raised")
               /\ UNCHANGED <<uploaded_videos, disk, history, lastUpload>>
          ELSE IF Expired(uploaded_videos[video], now)
          THEN /\ disk' = DictDel(disk, video)
               /\ uploaded_videos' = RemoveSession(uploaded_videos, video)
               /\ history' = IF video \in DOMAIN disk
                             THEN [history EXCEPT ![video] = "purged"]
                             ELSE history
               /\ lastUpload' = IF video \in DOMAIN disk
                                THEN DictDel(lastUpload, video)
                                ELSE lastUpload
               /\ streams' = end("raised")
          ELSE IF video \notin DOMAIN disk \/ disk[video] = Unopenable
          THEN /\ streams' = end("done")
               /\ UNCHANGED <<uploaded_videos, disk, history, lastUpload>>
          ELSE /\ streams' = [streams EXCEPT ![g] =
                      [pc |-> "yielded", video |-> video,
                       frames |-> disk[video], parts |-> 1, capture |-> TRUE,
                       part |-> process_frame(FileFrame(1), known_encodings)]]
               /\ UNCHANGED <<uploaded_videos, disk, history, lastUpload>>
    /\ resp' = NoResp
    /\ known_encodings' = StoreAfterMatch(known_encodings)
    /\ UNCHANGED <<pc, loaded_images, lock, fetches, now>>
    /\ UNCHANGED <<liveVars, lastMatch>>

\* app.py:183-200, resumed after a yield
StreamNext(g) ==
    /\ pc = "serving"
    /\ streams[g].pc = "yielded"
    /\ IF MoreFrames(streams[g].parts, streams[g].frames)
       THEN streams' = [streams EXCEPT
                ![g].parts = @ + 1,
                ![g].part = process_frame(FileFrame(streams[g].parts + 1),
                                          known_encodings)]
       ELSE streams' = [streams EXCEPT ![g] = Ended("done", streams[g].parts)]
    /\ resp' = NoResp
    /\ known_encodings' = StoreAfterMatch(known_encodings)
    /\ UNCHANGED <<pc, loaded_images, lock, fetches>>
    /\ UNCHANGED <<uploaded_videos, disk, now, lastUpload, history>>
    /\ UNCHANGED <<liveVars, lastMatch>>

\* The client goes away: the server closes the generator, which runs nothing
\* if it never started and else its finally clause (app.py:197-200).
StreamClose(g) ==
    /\ pc = "serving"
    /\ streams[g].pc \in {"created", "yielded"}
    /\ streams' = [streams EXCEPT ![g] = Ended("closed", streams[g].parts)]
    /\ resp' = NoResp
    /\ UNCHANGED <<uploaded_videos, disk, now, lastUpload, history>>
    /\ UNCHANGED <<startupVars, liveVars, lastMatch>>

NextVideo ==
    \/ Tick
    \/ \E part \in {"none", "empty"} : UploadVideo(part, NoVideo, Unopenable, "fail")
    \/ \E video \in Videos, content \in Contents : UploadVideo("file", video, content, "ok")
    \/ \E video \in Videos, saved \in {"fail", "partial"} :
          UploadVideo("file", video, Unopenable, saved)
    \/ \E video \in Videos : StreamVideo(video)
    \/ \E g \in StreamIds : StreamStart(g) \/ StreamNext(g) \/ StreamClose(g)

\* The service as it starts to serve, after a start-up that loaded the store.
InitVideo ==
    /\ pc = "serving"
    /\ known_encodings \in Galleries
    /\ loaded_images = TRUE
    /\ lock = FALSE
    /\ fetches = 2
    /\ streaming = FALSE
    /\ video_capture = None
    /\ opened = {}
    /\ previous_names = {}
    /\ feeds = [g \in FeedIds |-> NoFeed]
    /\ readFailed = FALSE
    /\ lastFrame = NoFrame
    /\ uploaded_videos = Empty
    /\ disk \in LeftoverDisks
    /\ now = 0
    /\ streams = [g \in StreamIds |-> NoStream]
    /\ lastUpload = Empty
    /\ history = [v \in Videos |-> "-"]
    /\ resp = NoResp
    /\ lastMatch = NoMatch

SpecVideo == InitVideo /\ [][NextVideo]_vars

\* The clock goes on and the server keeps driving a generator whose client
\* reads; no client is bound to send a request.
FairVideo ==
    /\ SpecVideo
    /\ WF_vars(Tick)
    /\ \A g \in StreamIds : WF_vars(StreamStart(g)) /\ WF_vars(StreamNext(g))

\* ---------------------------------------------------------------- live feed
\* app.py:276, streaming = True
StartFlagToggle(flag) == ~flag

StartFlag(flag) == TRUE

\* VideoCapture.release(): the handle is closed, every other one stays as it
\* is; releasing a released handle does nothing.
ReleaseAll(open, handle) == {}

Release(open, handle) == open \ {handle}

\* app.py:270-278
StartVideoFeed ==
    /\ pc = "serving"
    /\ streaming' = StartFlag(streaming)
    /\ readFailed' = FALSE
    /\ resp' = Response("start_video_feed", NoVideo, 200)
    /\ lastFrame' = NoFrame
    /\ UNCHANGED <<video_capture, opened, previous_names, feeds>>
    /\ UNCHANGED <<startupVars, videoVars, lastMatch>>

\* app.py:280-290
StopVideoFeed ==
    /\ pc = "serving"
    /\ streaming' = FALSE
    /\ opened' = Release(opened, video_capture)
    /\ resp' = Response("stop_video_feed", NoVideo, 200)
    /\ lastFrame' = NoFrame
    /\ UNCHANGED <<video_capture, previous_names, feeds, readFailed>>
    /\ UNCHANGED <<startupVars, videoVars, lastMatch>>

\* The first generator id not used yet.
FreeFeed(g) ==
    /\ feeds[g].pc = "none"
    /\ \A h \in FeedIds : h < g => feeds[h].pc # "none"

\* app.py:224, the test of the flag
FeedAllowedAlways == TRUE

FeedAllowed == streaming

\* app.py:219-226
VideoFeed ==
    /\ pc = "serving"
    /\ IF FeedAllowed
       THEN \E g \in FeedIds :
            /\ FreeFeed(g)
            /\ feeds' = [feeds EXCEPT ![g].pc = "created"]
            /\ resp' = Response("video_feed", NoVideo, 200)
       ELSE /\ resp' = Response("video_feed", NoVideo, 503)
            /\ UNCHANGED feeds
    /\ lastFrame' = NoFrame
    /\ UNCHANGED <<streaming, video_capture, opened, previous_names, readFailed>>
    /\ UNCHANGED <<startupVars, videoVars, lastMatch>>

\* app.py:248, the set of names in a result
DetectedNames(recognized_faces) ==
    {recognized_faces[i].name : i \in 1..Len(recognized_faces)}

\* app.py:250, detected_names != previous_names
NamesChanged(detected_names, previous) == detected_names # previous

\* app.py:265-268, the finally clause: it releases the global handle
FeedFinally(g, how, handle, open, previous) ==
    /\ feeds' = [feeds EXCEPT ![g] = [NoFeed EXCEPT !.pc = how]]
    /\ video_capture' = handle
    /\ opened' = Release(open, handle)
    /\ previous_names' = previous
    /\ lastFrame' = NoFrame

\* app.py:242, what the camera gives: a frame the codec rejects, a frame
\* with nobody in it, a frame with one face
CameraFrames ==
    {BadFrame, [ok |-> TRUE, faces |-> <<>>],
     [ok |-> TRUE, faces |-> <<[loc |-> 1, enc |-> 3]>>]}

\* app.py:241, while streaming
LoopTestAlways(flag) == TRUE

LoopTest(flag) == flag

\* app.py:241-257, one turn of the loop with the global handle, the open
\* handles and previous_names as the generator finds them.  A read fails when
\* the camera gives no frame or the handle is released.  The turn runs to the
\* yield (line 257) when the names are those of previous_names, and else to
\* gevent.sleep(0.1) (line 254), where other greenlets run.
FeedLoop(g, handle, open, previous) ==
    IF ~LoopTest(streaming)
    THEN /\ FeedFinally(g, "done", handle, open, previous)
         /\ UNCHANGED readFailed
    ELSE \/ /\ FeedFinally(g, "done", handle, open, previous)
            /\ readFailed' = TRUE
         \/ /\ handle \in open
            /\ \E detected_names \in
                     {DetectedNames(process_frame(frame, known_encodings)) :
                         frame \in CameraFrames} :
                 /\ previous_names' = IF NamesChanged(detected_names, previous)
                                      THEN detected_names ELSE previous
                 /\ feeds' = [feeds EXCEPT ![g] =
                        [pc |-> IF NamesChanged(detected_names, previous)
                                THEN "sleeping" ELSE "yielded",
                         own |-> detected_names]]
                 /\ lastFrame' = [read |-> TRUE,
                                  yielded |-> ~NamesChanged(detected_names, previous),
                                  changed |-> detected_names # feeds[g].own,
                                  emitted |-> NamesChanged(detected_names, previous)]
            /\ video_capture' = handle
            /\ opened' = open
            /\ UNCHANGED readFailed

\* app.py:232-240 and the first turn of the loop: previous_names is reset and
\* a new camera handle, which may fail to open, replaces the global one.  The
\* global was the only reference to the handle it held: the interpreter may
\* finalise that object, which closes it, or leave it open.
FeedStart(g) ==
    /\ pc = "serving"
    /\ feeds[g].pc = "created"
    /\ \E camera \in BOOLEAN, finalised \in BOOLEAN :
          FeedLoop(g, g,
                   (IF finalised THEN Release(opened, video_capture) ELSE opened)
                       \cup (IF camera THEN {g} ELSE {}),
                   {})
    /\ resp' = NoResp
    /\ known_encodings' = StoreAfterMatch(known_encodings)
    /\ UNCHANGED <<pc, loaded_images, lock, fetches, streaming>>
    /\ UNCHANGED <<videoVars, lastMatch>>

\* app.py:259-262 and the next turn of the loop
FeedNext(g) ==
    /\ pc = "serving"
    /\ feeds[g].pc = "yielded"
    /\ FeedLoop(g, video_capture, opened, previous_names)
    /\ resp' = NoResp
    /\ known_encodings' = StoreAfterMatch(known_encodings)
    /\ UNCHANGED <<pc, loaded_images, lock, fetches, streaming>>
    /\ UNCHANGED <<videoVars, lastMatch>>

\* app.py:254-257: the sleep is over, the frame is annotated and yielded
FeedWake(g) ==
    /\ pc = "serving"
    /\ feeds[g].pc = "sleeping"
    /\ feeds' = [feeds EXCEPT ![g].pc = "yielded"]
    /\ lastFrame' = [NoFrame EXCEPT !.yielded = TRUE]
    /\ resp' = NoResp
    /\ UNCHANGED <<streaming, video_capture, opened, previous_names, readFailed>>
    /\ UNCHANGED <<startupVars, videoVars, lastMatch>>

\* The client goes away: the server closes the generator where it is
\* suspended, at a yield or before its first step.  It runs nothing if it
\* never started and else its finally clause.
FeedClose(g) ==
    /\ pc = "serving"
    /\ feeds[g].pc \in {"created", "yielded"}
    /\ IF feeds[g].pc = "created"
       THEN /\ feeds' = [feeds EXCEPT ![g] = [NoFeed EXCEPT !.pc = "done"]]
            /\ lastFrame' = NoFrame
            /\ UNCHANGED <<video_capture, opened, previous_names>>
       ELSE FeedFinally(g, "done", video_capture, opened, previous_names)
    /\ resp' = NoResp
    /\ UNCHANGED <<streaming, readFailed>>
    /\ UNCHANGED <<startupVars, videoVars, lastMatch>>

\* app.py:89-95, a client connects to the push channel: a log line and a
\* 'response' event, no HTTP response
HandleConnect ==
    /\ pc = "serving"
    /\ resp' = NoResp
    /\ lastFrame' = NoFrame
    /\ UNCHANGED <<streaming, video_capture, opened, previous_names, feeds, readFailed>>
    /\ UNCHANGED <<startupVars, videoVars, lastMatch>>

\* app.py:97-102, a client leaves the push channel: a log line
HandleDisconnect ==
    /\ pc = "serving"
    /\ resp' = NoResp
    /\ lastFrame' = NoFrame
    /\ UNCHANGED <<streaming, video_capture, opened, previous_names, feeds, readFailed>>
    /\ UNCHANGED <<startupVars, videoVars, lastMatch>>

NextLive ==
    \/ StartVideoFeed
    \/ StopVideoFeed
    \/ VideoFeed
    \/ HandleConnect
    \/ HandleDisconnect
    \/ \E g \in FeedIds : FeedStart(g) \/ FeedNext(g) \/ FeedWake(g) \/ FeedClose(g)

\* The live feed never reads the upload folder: it is taken empty here.
InitLive == Init /\ disk = Empty

SpecLive == InitLive /\ [][NextStartup \/ NextLive]_vars

\* The server keeps driving a generator whose client reads, and a sleep ends;
\* no client is bound to send a request.
FairLive ==
    /\ SpecLive
    /\ \A g \in FeedIds :
          WF_vars(FeedStart(g)) /\ WF_vars(FeedNext(g)) /\ WF_vars(FeedWake(g))

\* The whole service: start-up, then every handler and generator.
Next ==
    \/ NextStartup
    \/ \E part \in {"none", "empty"} : UploadImage(part, BadFrame)
    \/ \E image \in Frames : UploadImage("file", image)
    \/ NextVideo
    \/ NextLive

Spec == Init /\ [][Next]_vars

\* =================================================================== claims
\* The (name, encoding) pairs of a store in its iteration order.
RECURSIVE Flat(_)
Flat(store) ==
    IF store = <<>> THEN <<>>
    ELSE [k \in 1..Len(Head(store).encodings) |->
             [name |-> Head(store).name, enc |-> Head(store).encodings[k]]]
         \o Flat(Tail(store))

\* C1: a face is labelled with a known identity only if one of that
\* identity's encodings is at distance strictly below 0.4 from it, and a face
\* whose every known encoding is at distance >= 0.4 is labelled "Unknown"; in
\* recognize_faces_in_image and in process_frame, for every store.
C1_BelowThresholdOrUnknown ==
    \A i \in 1..Len(lastMatch.out) :
        LET label == lastMatch.out[i].name
            face == lastMatch.faces[i].enc
            flat == Flat(known_encodings)
        IN /\ label # Unknown =>
                \E k \in 1..Len(flat) :
                    /\ flat[k].name = label
                    /\ face_distance(flat[k].enc, face) < 4
           /\ (\A k \in 1..Len(flat) : face_distance(flat[k].enc, face) >= 4)
                => label = Unknown

\* process_frame saw a face exactly 0.4 from the only encoding in reach and one
\* closer than 0.4 to it.
C1_Witness ==
    /\ lastMatch.fn = "process_frame"
    /\ Len(lastMatch.out) = 2
    /\ lastMatch.out[1].name = Unknown
    /\ lastMatch.out[2].name \in Names
    /\ \E k \in 1..Len(Flat(known_encodings)) :
          face_distance(Flat(known_encodings)[k].enc, lastMatch.faces[1].enc) = 4

\* C2: when some known encoding is strictly below 0.4, the label is the
\* identity of the first pair, in the store's iteration order, that attains
\* the minimum distance over all pairs.
C2_FirstGlobalMinimum ==
    \A i \in 1..Len(lastMatch.out) :
        LET face == lastMatch.faces[i].enc
            flat == Flat(known_encodings)
            dist(k) == face_distance(flat[k].enc, face)
        IN (\E k \in 1..Len(flat) : dist(k) < 4) =>
              \E k \in 1..Len(flat) :
                  /\ \A j \in 1..Len(flat) : dist(k) <= dist(j)
                  /\ \A j \in 1..(k - 1) : dist(j) > dist(k)
                  /\ lastMatch.out[i].name = flat[k].name

\* recognize_faces_in_image labelled a face that two identities match at the
\* same minimum distance, the second one listed first in the store.
C2_Witness ==
    /\ lastMatch.fn = "recognize_faces_in_image"
    /\ Len(known_encodings) = 2
    /\ known_encodings[1].name = "B"
    /\ \E i \in 1..Len(lastMatch.out) :
          /\ lastMatch.out[i].name = "B"
          /\ \E k \in 1..Len(known_encodings[2].encodings) :
                /\ face_distance(known_encodings[2].encodings[k], lastMatch.faces[i].enc) < 4
                /\ \A j \in 1..Len(known_encodings[1].encodings) :
                      face_distance(known_encodings[1].encodings[j], lastMatch.faces[i].enc)
                        >= face_distance(known_encodings[2].encodings[k], lastMatch.faces[i].enc)

\* The step in which generator g of stream_annotated_video runs from its
\* start to its first yield or its end.
StartsStream(g) ==
    /\ streams[g].pc = "created"
    /\ streams'[g].pc \in {"yielded", "done", "raised"}

\* C3: a stream generator run for a video whose session is more than 1 hour
\* old removes the file and the session and ends without a part; a later
\* stream request for that name, with no upload of it in between, gets 404.
C3_ExpiredStreamDeletes ==
    [][ /\ \A g \in StreamIds :
            LET video == streams[g].video
            IN (/\ StartsStream(g)
                /\ video \in DOMAIN uploaded_videos
                /\ now - uploaded_videos[video] > 1)
               => /\ video \notin DOMAIN disk'
                  /\ video \notin DOMAIN uploaded_videos'
                  /\ streams'[g].pc \in {"done", "raised"}
                  /\ streams'[g].parts = 0
        /\ (resp'.op = "stream_video" /\ history'[resp'.video] = "purged")
            => resp'.status = 404 ]_vars

\* A video was deleted on expiry and a later request for its stream got 404.
C3_Witness ==
    /\ resp.op = "stream_video"
    /\ resp.status = 404
    /\ history[resp.video] = "purged"

\* C4 as claimed: once more than 1 hour has passed since a video's latest
\* upload, its file and session are eventually removed, whoever requests
\* what.
C4_EventuallyDeleted ==
    \A video \in Videos :
        [](( /\ video \in DOMAIN uploaded_videos
             /\ now - uploaded_videos[video] > 1 )
           => <>( video \notin DOMAIN uploaded_videos /\ video \notin DOMAIN disk ))

\* C4 amended: a video's file and session are removed only by a stream
\* generator that is run for it more than 1 hour after its latest upload;
\* nothing else deletes them.
C4_DeletedOnlyByExpiredStream ==
    [][ \A video \in Videos :
           ( \/ (video \in DOMAIN uploaded_videos /\ video \notin DOMAIN uploaded_videos')
             \/ (video \in DOMAIN disk /\ video \notin DOMAIN disk') )
           => /\ video \in DOMAIN lastUpload
              /\ now - lastUpload[video] > 1
              /\ \E g \in StreamIds : StartsStream(g) /\ streams[g].video = video ]_vars

\* A video's hour has passed, nobody asks for its stream, and it is still
\* there.
C4_Witness ==
    \E video \in DOMAIN uploaded_videos :
        /\ now - uploaded_videos[video] > 1
        /\ video \in DOMAIN disk
        /\ \A g \in StreamIds : streams[g].pc \in {"none", "done", "raised", "closed"}

\* C5: a stream request for a name with no session in uploaded_videos gets
\* 404, never a 200 stream response.
C5_NoSessionIs404 ==
    (resp.op = "stream_video" /\ resp.video \notin DOMAIN uploaded_videos)
        => resp.status = 404

\* C6: every session has its file stored and carries the time of the latest
\* successful upload of its name, so a stream generator run within 1 hour of
\* that upload deletes nothing and does not end as an expired one does.
C6_ReuploadRestartsWindow ==
    [][ /\ \A video \in DOMAIN uploaded_videos' :
            /\ video \in DOMAIN disk'
            /\ video \in DOMAIN lastUpload'
            /\ uploaded_videos'[video] = lastUpload'[video]
        /\ \A g \in StreamIds :
            LET video == streams[g].video
            IN (/\ StartsStream(g)
                /\ video \in DOMAIN lastUpload
                /\ video \in DOMAIN uploaded_videos
                /\ now - lastUpload[video] <= 1)
               => /\ video \in DOMAIN uploaded_videos'
                  /\ video \in DOMAIN disk'
                  /\ streams'[g].pc # "raised" ]_vars

\* A video uploaded again after its first hour had passed is being streamed.
C6_Witness ==
    \E g \in StreamIds :
        /\ streams[g].pc = "yielded"
        /\ history[streams[g].video] = "renewed"
        /\ streams[g].video \in DOMAIN uploaded_videos

\* C7: a frame of a live stream emits persons_recognized if and only if its
\* set of names differs from the set of the frame before it in the same
\* stream (the empty set before the first frame).
C7_EventIffOwnSetChanged ==
    lastFrame.read => (lastFrame.emitted <=> lastFrame.changed)

\* C8: a camera read failure ends the stream and clears the streaming flag
\* until the next start_video_feed.
C8_ReadFailureClearsFlag ==
    readFailed => ~streaming

\* C9: GET /video_feed answers 200 and creates a generator only if the
\* streaming flag is set; with the flag clear it answers 503, creates no
\* generator, opens no camera handle and yields no frame.
C9_FeedOnlyWhileStreaming ==
    [][ /\ resp'.op = "video_feed" =>
            IF streaming
            THEN resp'.status = 200
            ELSE /\ resp'.status = 503
                 /\ feeds' = feeds
                 /\ opened' = opened
                 /\ video_capture' = video_capture
                 /\ ~lastFrame'.yielded
        /\ (\E g \in FeedIds : feeds[g].pc = "none" /\ feeds'[g].pc # "none")
            => (streaming /\ resp'.op = "video_feed" /\ resp'.status = 200) ]_vars

\* After a stop, with a generator of the stopped stream still around, a
\* request for the feed was refused.
C9_Witness ==
    /\ resp.op = "video_feed"
    /\ resp.status = 503
    /\ \E g \in FeedIds : feeds[g].pc = "yielded"

\* C10: the known embeddings are fetched from the remote storage at most once
\* in the life of the process.
C10_FetchedAtMostOnce ==
    fetches <= 1

\* C11: no generator ends by raising an exception: a stored-video stream
\* generator ends normally when its session is missing or expired, when its
\* file does not open and at end of file, a live-feed generator ends normally,
\* and the upload endpoints answer with 200 or with a JSON error (400, 500).
C11_NoGeneratorRaises ==
    /\ \A g \in StreamIds : streams[g].pc # "raised"
    /\ resp.op \in {"upload_image", "upload_video"} => resp.status \in {200, 400, 500}

\* C12: a fetch of the known embeddings that fails at start-up does not stop
\* the process: the service gets to serve, with an empty store.
C12_FetchFailureNotFatal ==
    /\ pc # "crashed"
    /\ (pc = "serving" /\ ~loaded_images) => known_encodings = <<>>

\* C13: at no time are two process_video generators active (started, not
\* ended).
C13_AtMostOneLiveGenerator ==
    Cardinality({g \in FeedIds : feeds[g].pc \in {"sleeping", "yielded"}}) <= 1

C15_StopEndsGenerators ==
    /\ [][ /\ resp'.op = "stop_video_feed"
                => (~streaming' /\ video_capture \notin opened')
           /\ \A g \in FeedIds :
                (/\ ~streaming
                 /\ feeds[g].pc \in {"created", "yielded"}
                 /\ feeds'[g] # feeds[g])
                => (/\ feeds'[g].pc = "done"
                    /\ ~lastFrame'.yielded
                    /\ video_capture' \notin opened') ]_vars
    /\ (~streaming) ~> ( \/ streaming
                         \/ /\ \A g \in FeedIds : feeds[g].pc \in {"none", "done"}
                            /\ video_capture \notin opened )

\* A generator that was asleep when the flag was cleared has yielded the
\* frame it was producing.
C15_Witness ==
    /\ ~streaming
    /\ lastFrame.yielded
    /\ ~lastFrame.read
    /\ \E g \in FeedIds : feeds[g].pc = "yielded"

C17_StartIsIdempotent ==
    [][ resp'.op = "start_video_feed" =>
           /\ streaming'
           /\ video_capture' = video_capture
           /\ opened' = opened
           /\ feeds' = feeds
           /\ previous_names' = previous_names
           /\ uploaded_videos' = uploaded_videos
           /\ disk' = disk
           /\ known_encodings' = known_encodings
           /\ loaded_images' = loaded_images ]_vars

\* start_video_feed was called while a stream was running on an open camera.
C17_Witness ==
    /\ resp.op = "start_video_feed"
    /\ streaming
    /\ video_capture \in opened
    /\ \E g \in FeedIds : feeds[g].pc = "yielded"

\* C18: once the service serves, no step changes the store, and a face
\* embedding gets the same label before and after every step.
C18_StoreFixedAfterLoad ==
    [][ pc = "serving" =>
           /\ known_encodings' = known_encodings
           /\ \A enc \in FaceEncodings :
                LET picture == [ok |-> TRUE, faces |-> <<[loc |-> 1, enc |-> enc]>>]
                IN process_frame(picture, known_encodings')
                       = process_frame(picture, known_encodings) ]_vars

\* The only live stream there has been matched a frame and found the names,
\* not none, of the frame before it.
C18_Witness ==
    /\ known_encodings # <<>>
    /\ feeds[1].pc = "yielded"
    /\ feeds[1].own # {}
    /\ \A g \in FeedIds : g # 1 => feeds[g].pc = "none"
    /\ lastFrame.read
    /\ ~lastFrame.changed

\* C19: an upload_video request that is answered with an error is answered
\* with 400 or 500 and leaves uploaded_videos as it was.
C19_FailedUploadKeepsSessions ==
    [][ (resp'.op = "upload_video" /\ resp'.status # 200) =>
           /\ resp'.status \in {400, 500}
           /\ uploaded_videos' = uploaded_videos ]_vars

\* A save failed for a name while sessions existed.
C19_Witness ==
    /\ resp.op = "upload_video"
    /\ resp.status = 500
    /\ uploaded_videos # Empty

\* C20: for the same faces and the same store recognize_faces_in_image and
\* process_frame give the same list of (location, label), in the same order.
C20_MatchersAgree ==
    lastMatch.fn # "none" =>
        /\ recognize_faces_in_image(lastMatch.faces, known_encodings) = lastMatch.out
        /\ process_frame([ok |-> TRUE, faces |-> lastMatch.faces], known_encodings)
               = lastMatch.out

\* A picture of two faces that got two different identities.
C20_Witness ==
    /\ lastMatch.fn # "none"
    /\ Len(lastMatch.out) = 2
    /\ lastMatch.out[1].name \in Names
    /\ lastMatch.out[2].name \in Names
    /\ lastMatch.out[1].name # lastMatch.out[2].name

====
